---------------------------- MODULE Spec2Model ----------------------------
(***************************************************************************)
(* Model of tubely's video upload handler (handlerUploadVideo) and of the  *)
(* helpers it calls: getVideoAspectRatio, processVideoForFastStart,        *)
(* dbVideoToSignedVideo and generatePresignedURL.                          *)
(*                                                                         *)
(* Go strings are modelled as sequences of symbols, so that concatenation  *)
(* is \o and strings.Split works on the separator symbol.  A *string that  *)
(* may be nil is a sequence of length 0 (nil) or 1 (pointer to a string).  *)
(***************************************************************************)
EXTENDS Integers, Sequences, FiniteSets, TLC

(* ------------------------------ bounds -------------------------------- *)

\* number of upload requests that may be in flight together
NumReqs == 2
\* number of distinct names os.CreateTemp can draw
MaxTempNames == 2
\* number of distinct leaf names getAssetPath can generate
MaxAssetNames == 2
\* classifier inputs 0..MaxDim (plus the spec's example sizes)
MaxDim == 24
\* codec inputs: strings of at most MaxLen symbols
MaxLen == 3

(* --------------------------- program constants ------------------------ *)

maxUploadSize == 1073741824

StatusOK == 200
StatusBadRequest == 400
StatusUnauthorized == 401
StatusInternalServerError == 500

(* ------------------------------ strings ------------------------------- *)

Nil == << >>
Ptr(s) == << s >>
Deref(p) == p[1]

Comma == ","

\* index of the first occurrence of sep in s at or after position i; 0 if none
RECURSIVE IndexFrom(_, _, _)
IndexFrom(s, sep, i) ==
    IF i > Len(s) THEN 0
    ELSE IF s[i] = sep THEN i
    ELSE IndexFrom(s, sep, i + 1)

\* strings.Split(s, sep) for a one-symbol separator: every occurrence splits
RECURSIVE Split(_, _)
Split(s, sep) ==
    LET i == IndexFrom(s, sep, 1)
    IN  IF i = 0 THEN << s >>
        ELSE << SubSeq(s, 1, i - 1) >> \o Split(SubSeq(s, i + 1, Len(s)), sep)

(* ------------------------- getVideoAspectRatio ------------------------ *)

\* AspectRatio comparing the ratios by cross-multiplication
AspectRatioCrossMultiplied(width, height) ==
    IF 9 * width = 16 * height THEN "16:9"
    ELSE IF 9 * height = 16 * width THEN "9:16"
    ELSE "other"

\* AspectRatio with the two checks in the other order
AspectRatioPortraitFirst(width, height) ==
    IF height = (16 * width) \div 9 THEN "9:16"
    ELSE IF width = (16 * height) \div 9 THEN "16:9"
    ELSE "other"

\* the classification at the end of getVideoAspectRatio; Go int division
\* truncates, which is floor division on non-negative operands
AspectRatio(width, height) ==
    IF width = (16 * height) \div 9 THEN "16:9"
    ELSE IF height = (16 * width) \div 9 THEN "9:16"
    ELSE "other"

\* Directory with the two orientations swapped
DirectorySwapped(aspectRatio) ==
    CASE aspectRatio = "16:9" -> "portrait"
      [] aspectRatio = "9:16" -> "landscape"
      [] OTHER -> "other"

\* the switch of handlerUploadVideo on the aspect ratio
Directory(aspectRatio) ==
    CASE aspectRatio = "16:9" -> "landscape"
      [] aspectRatio = "9:16" -> "portrait"
      [] OTHER -> "other"

(* ------------------------------ the codec ----------------------------- *)

\* BucketAndKey joining with the path separator instead of the comma
BucketAndKeySlash(bucket, key) == bucket \o << "/" >> \o key

\* bucketAndKey := cfg.s3Bucket + "," + key
BucketAndKey(bucket, key) == bucket \o << Comma >> \o key

\* the decoding part of dbVideoToSignedVideo: ok is FALSE on the
\* "invalid video url" return, else bucket and key are split[0] and split[1]
DecodeReference(url) ==
    LET split == Split(url, Comma)
    IN  IF Len(split) < 2
        THEN [ok |-> FALSE, bucket |-> << >>, key |-> << >>]
        ELSE [ok |-> TRUE, bucket |-> split[1], key |-> split[2]]

(* --------------------- collaborators' value spaces -------------------- *)

Reqs == 1 .. NumReqs

Users == {"u1", "u2"}
\* the records of the metadata store, and the ids a request may name
Videos == {"v1"}
RequestIDs == Videos \cup {"v0"}
Owner(id) == "u1"

\* cfg.s3Bucket
s3Bucket == << "tubely-bucket" >>

\* Content-Type headers a file part may carry ("" when it carries none)
ContentTypes == {"video/mp4", "Video/MP4; codecs=avc1", "image/png", ""}

\* mime.ParseMediaType(contentType): the lower-cased media type without its
\* parameters, or an error for a header with no media type
ParseMediaTypeOf(contentType) ==
    CASE contentType = "video/mp4" -> [ok |-> TRUE, mediaType |-> "video/mp4"]
      [] contentType = "Video/MP4; codecs=avc1" -> [ok |-> TRUE, mediaType |-> "video/mp4"]
      [] contentType = "image/png" -> [ok |-> TRUE, mediaType |-> "image/png"]
      [] OTHER -> [ok |-> FALSE, mediaType |-> ""]

\* body sizes around the cap
BodySizes == {maxUploadSize, maxUploadSize + 1}

\* stream sizes ffprobe may report
ProbeDims == {<<1920, 1080>>, <<1080, 1920>>, <<640, 480>>}

\* the n-th random string a name generator may draw
Random(n) == << "r1", "r2", "r3", "r4" >>[n]

\* os.CreateTemp("", "tubely-upload.mp4"): the pattern plus a random suffix
TempPath(n) == << "tubely-upload.mp4", Random(n) >>
TempPaths == {TempPath(n) : n \in 1 .. MaxTempNames}

\* outputFilePath := filePath + ".processing"
OutputFilePath(filePath) == filePath \o << ".processing" >>

\* getAssetPath(mediaType): a freshly generated leaf name with the media
\* type's extension
AssetPaths(mediaType) ==
    {<< Random(n), IF mediaType = "video/mp4" THEN ".mp4" ELSE ".bin" >> :
        n \in 1 .. MaxAssetNames}

\* path.Join(directory, key)
PathJoin(directory, key) == << directory, "/" >> \o key

\* generatePresignedURL: the URL PresignGetObject returns for bucket and key
PresignedURL(bucket, key) ==
    << "https://" >> \o bucket \o << ".s3.amazonaws.com/" >> \o key
        \o << "?X-Amz-Expires=300&X-Amz-Signature=" >>

(* ------------------------------- state -------------------------------- *)

VARIABLES
    req,      \* per request: the handler's position and locals
    db,       \* metadata store: video id -> record
    disk,     \* files on the local disk: path and the request that made it
    s3,       \* objects in the object store: <<bucket, key>>
    cin,      \* classifier run: the <<width, height>> drawn
    cout,     \* classifier run: the result, "" before the call
    kin,      \* codec run: the input drawn
    kout      \* codec run: the result, not done before the call

hvars == << req, db, disk, s3 >>
cvars == << cin, cout >>
kvars == << kin, kout >>
vars == << req, db, disk, s3, cin, cout, kin, kout >>

NoVideo == [ID |-> "", UserID |-> "", VideoURL |-> Nil]

InitReq ==
    [pc |-> "ParseVideoID",
     videoID |-> "",
     userID |-> "",
     videoMetadata |-> NoVideo,
     bodySize |-> 0,
     mediaType |-> Nil,
     tempFile |-> Nil,
     processedFilePath |-> Nil,
     probed |-> Nil,
     dims |-> << >>,
     directory |-> "",
     key |-> << >>,
     deferred |-> << >>,
     log |-> << >>,
     responses |-> 0,
     resp |-> [status |-> 0, msg |-> "", video |-> NoVideo]]

HInit ==
    /\ req = [r \in Reqs |-> InitReq]
    /\ db = [id \in Videos |-> [ID |-> id, UserID |-> Owner(id), VideoURL |-> Nil]]
    /\ disk = {}
    /\ s3 = {}

CIdle == cin = << 0, 0 >> /\ cout = ""
NoRef == [ok |-> FALSE, bucket |-> << >>, key |-> << >>]
KIdle ==
    /\ kin = [kind |-> "none", a |-> << >>, b |-> << >>]
    /\ kout = [done |-> FALSE, ref |-> NoRef, err |-> "", signed |-> FALSE]

Init == HInit /\ CIdle /\ KIdle

(* ------------------------------ the disk ------------------------------ *)

Exists(d, path) == \E f \in d : f.path = path

\* a file created at path by request r (replacing what was there)
Create(d, path, r) == {f \in d : f.path # path} \cup {[path |-> path, by |-> r]}

\* os.Remove(path): whatever file is at the path goes
Remove(d, path) == {f \in d : f.path # path}

(* ------------------------- handler bookkeeping ------------------------ *)

\* a call of a collaborator and whether it succeeded, in call order
Called(q, call, ok) == [q EXCEPT !.log = Append(@, [call |-> call, ok |-> ok])]

\* defer f(): pushed on the handler's defer stack, last in first out
Defer(q, op, path) == [q EXCEPT !.deferred = << [op |-> op, path |-> path] >> \o @]

At(q, pc) == [q EXCEPT !.pc = pc]

\* respondWithError(w, code, msg, err) followed by return
respondWithError(q, code, msg) ==
    [q EXCEPT !.pc = "return",
              !.responses = @ + 1,
              !.resp = [status |-> code, msg |-> msg, video |-> NoVideo]]

\* respondWithJSON(w, code, payload) followed by the end of the handler
respondWithJSON(q, code, payload) ==
    [q EXCEPT !.pc = "return",
              !.responses = @ + 1,
              !.resp = [status |-> code, msg |-> "", video |-> payload]]

Step(r, q) == req' = [req EXCEPT ![r] = q]

(* ------------------ handlerUploadVideo, step by step ------------------ *)

\* videoID, err := uuid.Parse(r.PathValue("videoID"))
ParseVideoID(r) ==
    /\ req[r].pc = "ParseVideoID"
    /\ UNCHANGED << db, disk, s3 >>
    /\ \/ Step(r, respondWithError(req[r], StatusBadRequest, "Invalid video ID"))
       \/ \E id \in RequestIDs :
             Step(r, At([req[r] EXCEPT !.videoID = id], "GetBearerToken"))

\* token, err := auth.GetBearerToken(r.Header)
GetBearerToken(r) ==
    /\ req[r].pc = "GetBearerToken"
    /\ UNCHANGED << db, disk, s3 >>
    /\ \/ Step(r, respondWithError(req[r], StatusUnauthorized,
                                   "Couldn't get JWT from header"))
       \/ Step(r, At(req[r], "ValidateJWT"))

\* userID, err := auth.ValidateJWT(token, cfg.jwtSecret)
ValidateJWT(r) ==
    /\ req[r].pc = "ValidateJWT"
    /\ UNCHANGED << db, disk, s3 >>
    /\ \/ Step(r, respondWithError(req[r], StatusUnauthorized, "Invalid JWT"))
       \/ \E u \in Users :
             Step(r, At([req[r] EXCEPT !.userID = u], "GetVideo"))

\* GetVideo without the owner check
GetVideoNoOwnerCheck(r) ==
    /\ req[r].pc = "GetVideo"
    /\ UNCHANGED << db, disk, s3 >>
    /\ IF req[r].videoID \notin DOMAIN db
       THEN Step(r, respondWithError(Called(req[r], "GetVideo", FALSE),
                    StatusInternalServerError, "Failed to get video from database"))
       ELSE Step(r, At([Called(req[r], "GetVideo", TRUE)
                           EXCEPT !.videoMetadata = db[req[r].videoID]],
                       "ParseMultipartForm"))

\* videoMetadata, err := cfg.db.GetVideo(videoID), then the owner check
GetVideo(r) ==
    /\ req[r].pc = "GetVideo"
    /\ UNCHANGED << db, disk, s3 >>
    /\ IF req[r].videoID \notin DOMAIN db
       THEN Step(r, respondWithError(Called(req[r], "GetVideo", FALSE),
                    StatusInternalServerError, "Failed to get video from database"))
       ELSE LET q == [Called(req[r], "GetVideo", TRUE)
                         EXCEPT !.videoMetadata = db[req[r].videoID]]
            IN  IF q.videoMetadata.UserID # q.userID
                THEN Step(r, respondWithError(q, StatusUnauthorized,
                                              "Video is not yours!"))
                ELSE Step(r, At(q, "ParseMultipartForm"))

\* ParseMultipartForm without the MaxBytesReader around the body
ParseMultipartFormNoCap(r) ==
    /\ req[r].pc = "ParseMultipartForm"
    /\ UNCHANGED << db, disk, s3 >>
    /\ \E size \in BodySizes, wellFormed \in BOOLEAN :
          LET q == [req[r] EXCEPT !.bodySize = size]
          IN  IF ~wellFormed
              THEN Step(r, respondWithError(q, StatusBadRequest,
                                            "Exceeded max upload file size"))
              ELSE Step(r, At(q, "FormFile"))

\* r.Body = http.MaxBytesReader(w, r.Body, maxUploadSize)
\* err = r.ParseMultipartForm(maxUploadSize)
ParseMultipartForm(r) ==
    /\ req[r].pc = "ParseMultipartForm"
    /\ UNCHANGED << db, disk, s3 >>
    /\ \E size \in BodySizes, wellFormed \in BOOLEAN :
          LET q == [req[r] EXCEPT !.bodySize = size]
          IN  IF size > maxUploadSize \/ ~wellFormed
              THEN Step(r, respondWithError(q, StatusBadRequest,
                                            "Exceeded max upload file size"))
              ELSE Step(r, At(q, "FormFile"))

\* file, header, err := r.FormFile("video"); defer file.Close()
FormFile(r) ==
    /\ req[r].pc = "FormFile"
    /\ UNCHANGED << db, disk, s3 >>
    /\ \/ Step(r, respondWithError(req[r], StatusBadRequest,
                                   "Unable to parse form file"))
       \/ Step(r, At(Defer(req[r], "Close", << "file" >>), "ParseMediaType"))

\* ParseMediaType without the check against "video/mp4"
ParseMediaTypeAnyType(r) ==
    /\ req[r].pc = "ParseMediaType"
    /\ UNCHANGED << db, disk, s3 >>
    /\ \E contentType \in ContentTypes :
          LET parsed == ParseMediaTypeOf(contentType)
              q == [req[r] EXCEPT !.mediaType = Ptr(parsed.mediaType)]
          IN  IF ~parsed.ok
              THEN Step(r, respondWithError(q, StatusBadRequest,
                                            "failed to get content type"))
              ELSE Step(r, At(q, "CreateTemp"))

\* mediaType, _, err := mime.ParseMediaType(header.Header.Get("Content-Type"))
\* and the check against "video/mp4"
ParseMediaType(r) ==
    /\ req[r].pc = "ParseMediaType"
    /\ UNCHANGED << db, disk, s3 >>
    /\ \E contentType \in ContentTypes :
          LET parsed == ParseMediaTypeOf(contentType)
              q == [req[r] EXCEPT !.mediaType = Ptr(parsed.mediaType)]
          IN  IF ~parsed.ok
              THEN Step(r, respondWithError(q, StatusBadRequest,
                                            "failed to get content type"))
              ELSE IF Deref(q.mediaType) # "video/mp4"
              THEN Step(r, respondWithError(q, StatusBadRequest,
                                            "incorrect file type"))
              ELSE Step(r, At(q, "CreateTemp"))

\* CreateTemp without defer os.Remove(tempFile.Name())
CreateTempNoRemove(r) ==
    /\ req[r].pc = "CreateTemp"
    /\ UNCHANGED << db, s3 >>
    /\ \/ /\ Step(r, respondWithError(Called(req[r], "CreateTemp", FALSE),
                     StatusInternalServerError, "failed to create temp file"))
          /\ UNCHANGED disk
       \/ \E p \in TempPaths :
             /\ ~Exists(disk, p)
             /\ disk' = Create(disk, p, r)
             /\ Step(r, At(Defer([Called(req[r], "CreateTemp", TRUE)
                                     EXCEPT !.tempFile = p],
                                 "Close", p),
                           "Copy"))

\* CreateTemp taking a name whether or not a file of that name exists
CreateTempNoExcl(r) ==
    /\ req[r].pc = "CreateTemp"
    /\ UNCHANGED << db, s3 >>
    /\ \/ /\ Step(r, respondWithError(Called(req[r], "CreateTemp", FALSE),
                     StatusInternalServerError, "failed to create temp file"))
          /\ UNCHANGED disk
       \/ \E p \in TempPaths :
             /\ disk' = Create(disk, p, r)
             /\ Step(r, At(Defer(Defer([Called(req[r], "CreateTemp", TRUE)
                                           EXCEPT !.tempFile = p],
                                       "Remove", p),
                                 "Close", p),
                           "Copy"))

\* tempFile, err := os.CreateTemp("", "tubely-upload.mp4")
\* defer os.Remove(tempFile.Name()); defer tempFile.Close()
\* CreateTemp opens with O_EXCL: the name it returns did not exist
CreateTemp(r) ==
    /\ req[r].pc = "CreateTemp"
    /\ UNCHANGED << db, s3 >>
    /\ \/ /\ Step(r, respondWithError(Called(req[r], "CreateTemp", FALSE),
                     StatusInternalServerError, "failed to create temp file"))
          /\ UNCHANGED disk
       \/ \E p \in TempPaths :
             /\ ~Exists(disk, p)
             /\ disk' = Create(disk, p, r)
             /\ Step(r, At(Defer(Defer([Called(req[r], "CreateTemp", TRUE)
                                           EXCEPT !.tempFile = p],
                                       "Remove", p),
                                 "Close", p),
                           "Copy"))

\* Copy answering its failure and carrying on with the Seek
CopyNoReturn(r) ==
    /\ req[r].pc = "Copy"
    /\ UNCHANGED << db, disk, s3 >>
    /\ \/ Step(r, At(respondWithError(Called(req[r], "Copy", FALSE),
                        StatusInternalServerError, "failed to copy file to disk"),
                     "Seek"))
       \/ Step(r, At(Called(req[r], "Copy", TRUE), "Seek"))

\* _, err = io.Copy(tempFile, file)
Copy(r) ==
    /\ req[r].pc = "Copy"
    /\ UNCHANGED << db, disk, s3 >>
    /\ \/ Step(r, respondWithError(Called(req[r], "Copy", FALSE),
                  StatusInternalServerError, "failed to copy file to disk"))
       \/ Step(r, At(Called(req[r], "Copy", TRUE), "Seek"))

\* Seek answering its failure with a 400
SeekBadRequest(r) ==
    /\ req[r].pc = "Seek"
    /\ UNCHANGED << db, disk, s3 >>
    /\ \/ Step(r, respondWithError(Called(req[r], "Seek", FALSE),
                  StatusBadRequest, "Could not reset file pointer"))
       \/ Step(r, At(Called(req[r], "Seek", TRUE), "staged"))

\* _, err = tempFile.Seek(0, io.SeekStart)
Seek(r) ==
    /\ req[r].pc = "Seek"
    /\ UNCHANGED << db, disk, s3 >>
    /\ \/ Step(r, respondWithError(Called(req[r], "Seek", FALSE),
                  StatusInternalServerError, "Could not reset file pointer"))
       \/ Step(r, At(Called(req[r], "Seek", TRUE), "staged"))

\* processVideoForFastStart(tempFile.Name()): ffmpeg -i filePath ... outputFilePath.
\* The command line carries no -y, so ffmpeg refuses an output path that
\* exists; a run that fails may leave a partial output behind.
processVideoForFastStart(r) ==
    LET outputFilePath == OutputFilePath(req[r].tempFile)
    IN  /\ req[r].pc = "staged"
        /\ UNCHANGED << db, s3 >>
        /\ \/ /\ Step(r, respondWithError(Called(req[r], "ffmpeg", FALSE),
                         StatusInternalServerError, "failed to process video"))
              /\ \/ disk' = disk
                 \/ /\ ~Exists(disk, outputFilePath)
                    /\ disk' = Create(disk, outputFilePath, r)
           \/ /\ ~Exists(disk, outputFilePath)
              /\ disk' = Create(disk, outputFilePath, r)
              /\ Step(r, At([Called(req[r], "ffmpeg", TRUE)
                                EXCEPT !.processedFilePath = outputFilePath],
                            "getVideoAspectRatio"))

\* what ffprobe can hand back: a failed run, output that is not the expected
\* JSON, or the decoded list of streams (empty, or the video stream first)
ProbeOutputs ==
    {[run |-> FALSE, json |-> FALSE, streams |-> << >>],
     [run |-> TRUE, json |-> FALSE, streams |-> << >>],
     [run |-> TRUE, json |-> TRUE, streams |-> << >>]}
    \cup {[run |-> TRUE, json |-> TRUE, streams |-> << d >>] : d \in ProbeDims}

\* getVideoAspectRatio(filePath), given what ffprobe handed back
getVideoAspectRatio(out) ==
    IF ~out.run THEN [ok |-> FALSE, ratio |-> ""]
    ELSE IF ~out.json THEN [ok |-> FALSE, ratio |-> ""]
    ELSE IF Len(out.streams) = 0 THEN [ok |-> FALSE, ratio |-> ""]
    ELSE [ok |-> TRUE,
          ratio |-> AspectRatio(out.streams[1][1], out.streams[1][2])]

\* aspectRatio, err := getVideoAspectRatio(processedFilePath); switch aspectRatio
Classify(r) ==
    /\ req[r].pc = "getVideoAspectRatio"
    /\ UNCHANGED << db, disk, s3 >>
    /\ \E out \in ProbeOutputs :
          LET res == getVideoAspectRatio(out)
              q == [Called(req[r], "ffprobe", res.ok)
                       EXCEPT !.probed = req[r].processedFilePath,
                              !.dims = IF res.ok THEN out.streams[1] ELSE << >>]
          IN  IF ~res.ok
              THEN Step(r, respondWithError(q, StatusInternalServerError,
                                            "Error determining aspect ratio"))
              ELSE Step(r, At([q EXCEPT !.directory = Directory(res.ratio)], "Open"))

\* pFile, err := os.Open(processedFilePath)
\* defer os.Remove(processedFilePath); defer pFile.Close()
Open(r) ==
    /\ req[r].pc = "Open"
    /\ UNCHANGED << db, disk, s3 >>
    /\ \/ Step(r, respondWithError(Called(req[r], "Open", FALSE),
                  StatusInternalServerError, "failed to open processed file"))
       \/ Step(r, At(Defer(Defer(Called(req[r], "Open", TRUE),
                                 "Remove", req[r].processedFilePath),
                           "Close", req[r].processedFilePath),
                     "PutObject"))

\* PutObject trying again after a failed write
PutObjectRetry(r) ==
    /\ req[r].pc = "PutObject"
    /\ UNCHANGED << db, disk >>
    /\ \E a \in AssetPaths(Deref(req[r].mediaType)) :
          LET q == [req[r] EXCEPT !.key = PathJoin(req[r].directory, a)]
          IN  \/ /\ Len(req[r].log) < 9
                 /\ Step(r, Called(q, "PutObject", FALSE))
                 /\ UNCHANGED s3
              \/ /\ Len(req[r].log) >= 9
                 /\ Step(r, respondWithError(Called(q, "PutObject", FALSE),
                            StatusInternalServerError, "Couldn't put object into S3"))
                 /\ UNCHANGED s3
              \/ /\ s3' = s3 \cup {<< s3Bucket, q.key >>}
                 /\ Step(r, At(Called(q, "PutObject", TRUE), "UpdateVideo"))

\* PutObject going on to the update although the write failed
PutObjectIgnoreError(r) ==
    /\ req[r].pc = "PutObject"
    /\ UNCHANGED << db, disk >>
    /\ \E a \in AssetPaths(Deref(req[r].mediaType)) :
          LET q == [req[r] EXCEPT !.key = PathJoin(req[r].directory, a)]
          IN  \/ /\ Step(r, At(Called(q, "PutObject", FALSE), "UpdateVideo"))
                 /\ UNCHANGED s3
              \/ /\ s3' = s3 \cup {<< s3Bucket, q.key >>}
                 /\ Step(r, At(Called(q, "PutObject", TRUE), "UpdateVideo"))

\* key := path.Join(directory, getAssetPath(mediaType)); cfg.s3Client.PutObject(...)
PutObject(r) ==
    /\ req[r].pc = "PutObject"
    /\ UNCHANGED << db, disk >>
    /\ \E a \in AssetPaths(Deref(req[r].mediaType)) :
          LET q == [req[r] EXCEPT !.key = PathJoin(req[r].directory, a)]
          IN  \/ /\ Step(r, respondWithError(Called(q, "PutObject", FALSE),
                            StatusInternalServerError, "Couldn't put object into S3"))
                 /\ UNCHANGED s3
              \/ /\ s3' = s3 \cup {<< s3Bucket, q.key >>}
                 /\ Step(r, At(Called(q, "PutObject", TRUE), "UpdateVideo"))

\* UpdateVideo persisting the presigned URL instead of bucket,key
UpdateVideoSignedURL(r) ==
    LET q == [req[r] EXCEPT !.videoMetadata.VideoURL =
                               Ptr(PresignedURL(s3Bucket, req[r].key))]
    IN  /\ req[r].pc = "UpdateVideo"
        /\ UNCHANGED << disk, s3 >>
        /\ \/ /\ Step(r, respondWithError(Called(q, "UpdateVideo", FALSE),
                         StatusInternalServerError, "Couldn't update video"))
              /\ UNCHANGED db
           \/ /\ db' = [db EXCEPT ![q.videoMetadata.ID] = q.videoMetadata]
              /\ Step(r, At(Called(q, "UpdateVideo", TRUE), "dbVideoToSignedVideo"))

\* UpdateVideo deleting the uploaded object when the update fails
UpdateVideoRollback(r) ==
    LET bucketAndKey == BucketAndKey(s3Bucket, req[r].key)
        q == [req[r] EXCEPT !.videoMetadata.VideoURL = Ptr(bucketAndKey)]
    IN  /\ req[r].pc = "UpdateVideo"
        /\ UNCHANGED disk
        /\ \/ /\ Step(r, respondWithError(Called(q, "UpdateVideo", FALSE),
                         StatusInternalServerError, "Couldn't update video"))
              /\ s3' = s3 \ {<< s3Bucket, q.key >>}
              /\ UNCHANGED db
           \/ /\ db' = [db EXCEPT ![q.videoMetadata.ID] = q.videoMetadata]
              /\ UNCHANGED s3
              /\ Step(r, At(Called(q, "UpdateVideo", TRUE), "dbVideoToSignedVideo"))

\* videoMetadata.VideoURL = &bucketAndKey; err = cfg.db.UpdateVideo(videoMetadata)
UpdateVideo(r) ==
    LET bucketAndKey == BucketAndKey(s3Bucket, req[r].key)
        q == [req[r] EXCEPT !.videoMetadata.VideoURL = Ptr(bucketAndKey)]
    IN  /\ req[r].pc = "UpdateVideo"
        /\ UNCHANGED << disk, s3 >>
        /\ \/ /\ Step(r, respondWithError(Called(q, "UpdateVideo", FALSE),
                         StatusInternalServerError, "Couldn't update video"))
              /\ UNCHANGED db
           \/ /\ db' = [db EXCEPT ![q.videoMetadata.ID] = q.videoMetadata]
              /\ Step(r, At(Called(q, "UpdateVideo", TRUE), "dbVideoToSignedVideo"))

\* dbVideoToSignedVideo(video): signed tells whether generatePresignedURL was
\* called, presignOK whether it succeeded
dbVideoToSignedVideo(video, presignOK) ==
    IF video.VideoURL = Nil
    THEN [err |-> "", video |-> video, signed |-> FALSE]
    ELSE LET ref == DecodeReference(Deref(video.VideoURL))
         IN  IF ~ref.ok
             THEN [err |-> "error: invalid video url", video |-> video,
                   signed |-> FALSE]
             ELSE IF ~presignOK
             THEN [err |-> "error: failed to generate presigned URL",
                   video |-> video, signed |-> TRUE]
             ELSE [err |-> "",
                   video |-> [video EXCEPT
                                !.VideoURL = Ptr(PresignedURL(ref.bucket, ref.key))],
                   signed |-> TRUE]

\* SignAndRespond putting the record's old VideoURL back when signing fails
SignAndRespondRollback(r) ==
    /\ req[r].pc = "dbVideoToSignedVideo"
    /\ UNCHANGED << disk, s3 >>
    /\ \E presignOK \in BOOLEAN :
          LET res == dbVideoToSignedVideo(req[r].videoMetadata, presignOK)
              q == IF res.signed
                   THEN Called(req[r], "Presign", res.err = "")
                   ELSE req[r]
          IN  IF res.err # ""
              THEN /\ Step(r, respondWithError(q, StatusInternalServerError,
                                               "Couldn't sign video"))
                   /\ db' = [db EXCEPT ![q.videoMetadata.ID].VideoURL = Nil]
              ELSE /\ Step(r, respondWithJSON(q, StatusOK, res.video))
                   /\ UNCHANGED db

\* signedVideo, err := cfg.dbVideoToSignedVideo(videoMetadata)
\* respondWithJSON(w, http.StatusOK, signedVideo)
SignAndRespond(r) ==
    /\ req[r].pc = "dbVideoToSignedVideo"
    /\ UNCHANGED << db, disk, s3 >>
    /\ \E presignOK \in BOOLEAN :
          LET res == dbVideoToSignedVideo(req[r].videoMetadata, presignOK)
              q == IF res.signed
                   THEN Called(req[r], "Presign", res.err = "")
                   ELSE req[r]
          IN  IF res.err # ""
              THEN Step(r, respondWithError(q, StatusInternalServerError,
                                            "Couldn't sign video"))
              ELSE Step(r, respondWithJSON(q, StatusOK, res.video))

\* how many deferred calls the next step runs: the Close calls on top of the
\* stack, which touch only the request's own handles, and the Remove under them
RECURSIVE NextRun(_)
NextRun(stack) ==
    IF stack = << >> THEN 0
    ELSE IF Head(stack).op = "Remove" THEN 1
    ELSE 1 + NextRun(Tail(stack))

\* the handler returns: its deferred calls run, last deferred first
RunDeferred(r) ==
    /\ req[r].pc = "return"
    /\ req[r].deferred # << >>
    /\ LET n == NextRun(req[r].deferred)
           d == req[r].deferred[n]
       IN  /\ disk' = IF d.op = "Remove" THEN Remove(disk, d.path) ELSE disk
           /\ Step(r, [req[r] EXCEPT !.deferred = SubSeq(@, n + 1, Len(@))])
    /\ UNCHANGED << db, s3 >>

\* ... and the handler is gone, its locals with it; the response stays
Return(r) ==
    /\ req[r].pc = "return"
    /\ req[r].deferred = << >>
    /\ Step(r, [InitReq EXCEPT !.pc = "done",
                               !.responses = req[r].responses,
                               !.resp = req[r].resp])
    /\ UNCHANGED << db, disk, s3 >>

Next ==
    \/ \E r \in Reqs : ParseVideoID(r) /\ UNCHANGED << cvars, kvars >>
    \/ \E r \in Reqs : GetBearerToken(r) /\ UNCHANGED << cvars, kvars >>
    \/ \E r \in Reqs : ValidateJWT(r) /\ UNCHANGED << cvars, kvars >>
    \/ \E r \in Reqs : GetVideo(r) /\ UNCHANGED << cvars, kvars >>
    \/ \E r \in Reqs : ParseMultipartForm(r) /\ UNCHANGED << cvars, kvars >>
    \/ \E r \in Reqs : FormFile(r) /\ UNCHANGED << cvars, kvars >>
    \/ \E r \in Reqs : ParseMediaType(r) /\ UNCHANGED << cvars, kvars >>
    \/ \E r \in Reqs : CreateTemp(r) /\ UNCHANGED << cvars, kvars >>
    \/ \E r \in Reqs : Copy(r) /\ UNCHANGED << cvars, kvars >>
    \/ \E r \in Reqs : Seek(r) /\ UNCHANGED << cvars, kvars >>
    \/ \E r \in Reqs : processVideoForFastStart(r) /\ UNCHANGED << cvars, kvars >>
    \/ \E r \in Reqs : Classify(r) /\ UNCHANGED << cvars, kvars >>
    \/ \E r \in Reqs : Open(r) /\ UNCHANGED << cvars, kvars >>
    \/ \E r \in Reqs : PutObject(r) /\ UNCHANGED << cvars, kvars >>
    \/ \E r \in Reqs : UpdateVideo(r) /\ UNCHANGED << cvars, kvars >>
    \/ \E r \in Reqs : SignAndRespond(r) /\ UNCHANGED << cvars, kvars >>
    \/ \E r \in Reqs : RunDeferred(r) /\ UNCHANGED << cvars, kvars >>
    \/ \E r \in Reqs : Return(r) /\ UNCHANGED << cvars, kvars >>

Spec == Init /\ [][Next]_vars

(* ------- the earlier revision of the handler (handler_upload_video.go) ------ *)
(* It is the same up to the Seek; it then probes the staged file itself,       *)
(* uploads it without a remux and stores the object's plain URL.               *)

\* cfg.getVideoURL(key): the object's plain URL
getVideoURL(key) ==
    << "https://" >> \o s3Bucket \o << ".s3.amazonaws.com/" >> \o key

\* aspectRatio, err := getVideoAspectRatio(tempFile.Name()); switch aspectRatio
LegacyClassify(r) ==
    /\ req[r].pc = "staged"
    /\ UNCHANGED << db, disk, s3 >>
    /\ \E out \in ProbeOutputs :
          LET res == getVideoAspectRatio(out)
              q == [Called(req[r], "ffprobe", res.ok)
                       EXCEPT !.probed = req[r].tempFile,
                              !.dims = IF res.ok THEN out.streams[1] ELSE << >>]
          IN  IF ~res.ok
              THEN Step(r, respondWithError(q, StatusInternalServerError,
                                            "Error determining aspect ratio"))
              ELSE Step(r, At([q EXCEPT !.directory = Directory(res.ratio)],
                              "PutObject"))

\* s3FileURL := cfg.getVideoURL(key); videoMetadata.VideoURL = &s3FileURL
\* err = cfg.db.UpdateVideo(videoMetadata); respondWithJSON(w, 200, videoMetadata)
LegacyUpdateVideo(r) ==
    LET q == [req[r] EXCEPT !.videoMetadata.VideoURL = Ptr(getVideoURL(req[r].key))]
    IN  /\ req[r].pc = "UpdateVideo"
        /\ UNCHANGED << disk, s3 >>
        /\ \/ /\ Step(r, respondWithError(Called(q, "UpdateVideo", FALSE),
                         StatusInternalServerError, "Couldn't update video"))
              /\ UNCHANGED db
           \/ /\ db' = [db EXCEPT ![q.videoMetadata.ID] = q.videoMetadata]
              /\ Step(r, respondWithJSON(Called(q, "UpdateVideo", TRUE),
                                         StatusOK, q.videoMetadata))

LegacyNext ==
    \/ \E r \in Reqs : ParseVideoID(r) /\ UNCHANGED << cvars, kvars >>
    \/ \E r \in Reqs : GetBearerToken(r) /\ UNCHANGED << cvars, kvars >>
    \/ \E r \in Reqs : ValidateJWT(r) /\ UNCHANGED << cvars, kvars >>
    \/ \E r \in Reqs : GetVideo(r) /\ UNCHANGED << cvars, kvars >>
    \/ \E r \in Reqs : ParseMultipartForm(r) /\ UNCHANGED << cvars, kvars >>
    \/ \E r \in Reqs : FormFile(r) /\ UNCHANGED << cvars, kvars >>
    \/ \E r \in Reqs : ParseMediaType(r) /\ UNCHANGED << cvars, kvars >>
    \/ \E r \in Reqs : CreateTemp(r) /\ UNCHANGED << cvars, kvars >>
    \/ \E r \in Reqs : Copy(r) /\ UNCHANGED << cvars, kvars >>
    \/ \E r \in Reqs : Seek(r) /\ UNCHANGED << cvars, kvars >>
    \/ \E r \in Reqs : LegacyClassify(r) /\ UNCHANGED << cvars, kvars >>
    \/ \E r \in Reqs : PutObject(r) /\ UNCHANGED << cvars, kvars >>
    \/ \E r \in Reqs : LegacyUpdateVideo(r) /\ UNCHANGED << cvars, kvars >>
    \/ \E r \in Reqs : RunDeferred(r) /\ UNCHANGED << cvars, kvars >>
    \/ \E r \in Reqs : Return(r) /\ UNCHANGED << cvars, kvars >>

SpecLegacy == Init /\ [][LegacyNext]_vars

(* ---------------- the classifier on drawn stream sizes ----------------- *)

DimValues == (0 .. MaxDim) \cup {480, 640, 1080, 1920}

ClassifyInit ==
    /\ HInit /\ KIdle
    /\ cin \in DimValues \X DimValues
    /\ cout = ""

\* getVideoAspectRatio on a file whose first stream has the drawn size
RunAspectRatio ==
    /\ cout = ""
    /\ cout' = getVideoAspectRatio(
                  [run |-> TRUE, json |-> TRUE, streams |-> << cin >>]).ratio
    /\ UNCHANGED << hvars, kvars, cin >>

SpecClassify == ClassifyInit /\ [][RunAspectRatio]_vars

(* ------------------- the codec on drawn strings ------------------------ *)

Symbols == {"a", "/", Comma}
Strings == UNION {[1 .. n -> Symbols] : n \in 0 .. MaxLen}

CodecInputs ==
    {[kind |-> "pair", a |-> c, b |-> k] : c \in Strings, k \in Strings}
    \cup {[kind |-> "raw", a |-> u, b |-> << >>] : u \in Strings}
    \cup {[kind |-> "pair", a |-> << "bucket1" >>,
           b |-> << "a", "/", "b", "/", "c" >>],
          [kind |-> "raw", a |-> << "onlyonepart" >>, b |-> << >>]}

CodecInit ==
    /\ HInit /\ CIdle
    /\ kin \in CodecInputs
    /\ kout = [done |-> FALSE, ref |-> NoRef, err |-> "", signed |-> FALSE]

\* what dbVideoToSignedVideo makes of a record whose VideoURL is url
Decoded(url) ==
    LET res == dbVideoToSignedVideo(
                   [ID |-> "v1", UserID |-> "u1", VideoURL |-> Ptr(url)], TRUE)
    IN  [done |-> TRUE, ref |-> DecodeReference(url),
         err |-> res.err, signed |-> res.signed]

\* the handler stores bucket + "," + key; a later read decodes it
StoreAndDecode ==
    /\ kin.kind = "pair"
    /\ ~kout.done
    /\ kout' = Decoded(BucketAndKey(kin.a, kin.b))
    /\ UNCHANGED << hvars, cvars, kin >>

\* a read decodes a VideoURL that some other writer stored
DecodeStored ==
    /\ kin.kind = "raw"
    /\ ~kout.done
    /\ kout' = Decoded(kin.a)
    /\ UNCHANGED << hvars, cvars, kin >>

CodecNext == StoreAndDecode \/ DecodeStored

SpecCodec == CodecInit /\ [][CodecNext]_vars

(* ------------------- the handler with calls that return ---------------- *)

\* the next step of request r's handler, whichever it is
Proceed(r) ==
    /\ \/ ParseVideoID(r) \/ GetBearerToken(r) \/ ValidateJWT(r) \/ GetVideo(r)
       \/ ParseMultipartForm(r) \/ FormFile(r) \/ ParseMediaType(r)
       \/ CreateTemp(r) \/ Copy(r) \/ Seek(r) \/ processVideoForFastStart(r)
       \/ Classify(r) \/ Open(r) \/ PutObject(r) \/ UpdateVideo(r)
       \/ SignAndRespond(r) \/ RunDeferred(r) \/ Return(r)
    /\ UNCHANGED << cvars, kvars >>

\* every call the handler makes returns and net/http runs each request's
\* goroutine: a request that can take a step takes one
SpecFair == Init /\ [][Next]_vars /\ \A r \in Reqs : WF_vars(Proceed(r))

(* ============================== claims ================================= *)

\* how often a request has called a collaborator, and whether a call succeeded
Calls(q, call) == Cardinality({i \in 1 .. Len(q.log) : q.log[i].call = call})
Succeeded(q, call) == \E i \in 1 .. Len(q.log) : q.log[i].call = call /\ q.log[i].ok

\* the step in which the handler of request r returns to the server
Returns(r) == req[r].pc = "return" /\ req'[r].pc = "done"

\* the file request r made at path is on disk d
Holds(d, path, r) == \E f \in d : f.path = path /\ f.by = r

\* request r has staged nothing and run nothing
NothingStarted(r) ==
    /\ req[r].tempFile = Nil
    /\ \A call \in {"CreateTemp", "ffmpeg", "ffprobe", "Open", "PutObject",
                    "UpdateVideo", "Presign"} : Calls(req[r], call) = 0
    /\ ~\E f \in disk : f.by = r

\* floor division stated without \div: w = (16 * h) \div 9
IsLandscape(w, h) == 9 * w <= 16 * h /\ 16 * h < 9 * w + 9
IsPortrait(w, h) == 9 * h <= 16 * w /\ 16 * w < 9 * h + 9
OrientationOf(d) ==
    IF IsLandscape(d[1], d[2]) THEN "landscape"
    ELSE IF IsPortrait(d[1], d[2]) THEN "portrait"
    ELSE "other"

(* C1: once the remux has succeeded, the remux output of the request is no
   longer on disk when the handler returns, whatever the exit path. *)
C1_RemuxOutputRemoved ==
    [][\A r \in Reqs :
          (Returns(r) /\ req[r].processedFilePath # Nil)
              => ~Holds(disk', req[r].processedFilePath, r)]_vars

(* C2: once the staged temporary file has been created, it is no longer on
   disk when the handler returns, whatever the exit path. *)
C2_TempFileRemoved ==
    [][\A r \in Reqs :
          (Returns(r) /\ req[r].tempFile # Nil)
              => ~Holds(disk', req[r].tempFile, r)]_vars

C2_Witness ==
    \E r \in Reqs :
        /\ req[r].pc = "return" /\ req[r].deferred = << >>
        /\ Calls(req[r], "CreateTemp") = 1
        /\ req[r].tempFile # Nil
        /\ ~Exists(disk, req[r].tempFile)
        /\ req[r].resp.status = StatusInternalServerError

(* C3: a request whose user is not the owner of the record ends with a 401,
   writes no object, updates no record, stages no file and runs no process. *)
C3_NotOwnerRejected ==
    \A r \in Reqs :
        (req[r].videoMetadata.ID # ""
            /\ req[r].userID # req[r].videoMetadata.UserID)
        => /\ req[r].pc = "return"
           /\ req[r].resp.status = 401
           /\ req[r].responses = 1
           /\ NothingStarted(r)

C3_Witness ==
    \E r \in Reqs :
        /\ req[r].pc = "return"
        /\ req[r].userID = "u2"
        /\ req[r].videoMetadata.UserID = "u1"
        /\ req[r].resp.status = 401

(* C4: an upload whose media type is not video/mp4, or cannot be parsed, is
   rejected with a 400 before any temp file is created; it runs no remux, no
   probe, no object-store write and no metadata update. *)
C4_WrongTypeRejected ==
    \A r \in Reqs :
        (req[r].mediaType # Nil /\ Deref(req[r].mediaType) # "video/mp4")
        => /\ req[r].pc = "return"
           /\ req[r].resp.status = 400
           /\ NothingStarted(r)

C4_Witness ==
    \E r \in Reqs :
        /\ req[r].pc = "return"
        /\ req[r].mediaType = Ptr("image/png")
        /\ req[r].resp.status = 400

(* C5: a successful upload has written exactly one object, under a key whose
   first segment is the orientation of the probed size, and its metadata
   update set the record's VideoURL to bucket "," key for that same key. *)
C5_SuccessfulUpload ==
    [][\A r \in Reqs :
          /\ (req[r].pc = "UpdateVideo" /\ req'[r].pc = "dbVideoToSignedVideo")
             => /\ db'[req[r].videoMetadata.ID].VideoURL
                      = Ptr(s3Bucket \o << "," >> \o req[r].key)
                /\ req'[r].key = req[r].key
          /\ (req[r].pc = "dbVideoToSignedVideo" /\ req'[r].pc = "return"
                 /\ req'[r].resp.status = 200)
             => /\ Calls(req'[r], "PutObject") = 1
                /\ Succeeded(req'[r], "PutObject")
                /\ Calls(req'[r], "UpdateVideo") = 1
                /\ Succeeded(req'[r], "UpdateVideo")
                /\ req'[r].key = req[r].key
                /\ req'[r].key[1] = OrientationOf(req'[r].dims)
                /\ << s3Bucket, req'[r].key >> \in s3']_vars

C5_Witness ==
    \E r \in Reqs :
        /\ req[r].pc = "return"
        /\ req[r].resp.status = 200
        /\ req[r].dims = << 1080, 1920 >>
        /\ req[r].key[1] = "portrait"
        /\ << s3Bucket, req[r].key >> \in s3

(* C6: the signed URL is never persisted: the update is handed bucket "," key,
   the signed URL is only in the response, and producing the response leaves
   both the store and the record that was handed to the update as they were. *)
C6_SignedURLNotPersisted ==
    [][\A r \in Reqs :
          LET stored == Ptr(BucketAndKey(s3Bucket, req[r].key))
              signed == Ptr(PresignedURL(s3Bucket, req[r].key))
          IN  /\ (req[r].pc = "UpdateVideo" /\ req'[r].pc # "UpdateVideo")
                 => /\ req'[r].videoMetadata.VideoURL = stored
                    /\ \A id \in DOMAIN db :
                          db'[id] # db[id] => db'[id].VideoURL = stored
              /\ (req[r].pc = "dbVideoToSignedVideo" /\ req'[r].pc = "return"
                     /\ req'[r].resp.status = 200)
                 => /\ db' = db
                    /\ req'[r].videoMetadata = req[r].videoMetadata
                    /\ req'[r].videoMetadata.VideoURL = stored
                    /\ req'[r].resp.video.VideoURL = signed
                    /\ signed # stored
              /\ \A id \in DOMAIN db :
                    db'[id].VideoURL # Nil
                        => Deref(db'[id].VideoURL)[1] # "https://"]_vars

C6_Witness ==
    \E r \in Reqs :
        /\ req[r].pc = "return"
        /\ req[r].resp.status = 200
        /\ db[req[r].videoMetadata.ID].VideoURL = req[r].videoMetadata.VideoURL
        /\ req[r].resp.video.VideoURL # req[r].videoMetadata.VideoURL
        /\ Deref(req[r].resp.video.VideoURL)[1] = "https://"

(* C7: for non-negative width and height the classifier answers "16:9" when
   width = 16*height/9 in integer division, else "9:16" when
   height = 16*width/9, else "other"; 1920x1080 is landscape, 1080x1920 is
   portrait, 640x480 is other. *)
C7_Classifier ==
    cout # ""
    => LET w == cin[1]
           h == cin[2]
       IN  /\ IsLandscape(w, h) => cout = "16:9"
           /\ (~IsLandscape(w, h) /\ IsPortrait(w, h)) => cout = "9:16"
           /\ (~IsLandscape(w, h) /\ ~IsPortrait(w, h)) => cout = "other"
           /\ cin = << 1920, 1080 >> => cout = "16:9"
           /\ cin = << 1080, 1920 >> => cout = "9:16"
           /\ cin = << 640, 480 >> => cout = "other"

C7_Witness == cin = << 9, 16 >> /\ cout = "9:16"

(* C8, as stated: the landscape check comes first, and width = height = 0 is
   the only size that passes both checks; it is classified landscape. *)
C8_OnlyZeroTies ==
    (cout # "" /\ IsLandscape(cin[1], cin[2]) /\ IsPortrait(cin[1], cin[2]))
    => (cin = << 0, 0 >> /\ cout = "16:9")

(* C8, amended: the landscape check comes first, and the sizes that pass both
   checks are exactly 0x0 and 1x1; both are classified landscape. *)
C8_TiesAreLandscape ==
    cout # ""
    => /\ (IsLandscape(cin[1], cin[2]) /\ IsPortrait(cin[1], cin[2]))
              <=> cin \in {<< 0, 0 >>, << 1, 1 >>}
       /\ (IsLandscape(cin[1], cin[2]) /\ IsPortrait(cin[1], cin[2]))
              => cout = "16:9"

C8_Witness == cin = << 1, 1 >> /\ cout = "16:9"

(* C9: for every bucket and key without a comma, decoding the string the
   handler stores gives back that bucket and that key; decoding a string
   with no comma fails as an invalid reference and never calls the signer. *)
HasComma(u) == \E i \in 1 .. Len(u) : u[i] = Comma

C9_CodecRoundTrip ==
    kout.done
    => /\ (kin.kind = "pair" /\ ~HasComma(kin.a) /\ ~HasComma(kin.b))
          => /\ kout.ref.ok
             /\ kout.ref.bucket = kin.a
             /\ kout.ref.key = kin.b
             /\ kout.err = ""
       /\ (kin.kind = "raw" /\ ~HasComma(kin.a))
          => /\ ~kout.ref.ok
             /\ kout.err = "error: invalid video url"
             /\ ~kout.signed

C9_Witness ==
    /\ kout.done
    /\ kin.kind = "pair"
    /\ kin.a = << "bucket1" >>
    /\ kin.b = << "a", "/", "b", "/", "c" >>
    /\ kout.ref.bucket = << "bucket1" >>
    /\ kout.ref.key = << "a", "/", "b", "/", "c" >>

(* C10: a failure is answered 400 when validation failed, 401 when
   authentication or authorization failed and 500 when processing, storage,
   persistence or signing failed; 200 only when every step succeeded. *)
ValidationFailures ==
    {"Invalid video ID", "Exceeded max upload file size",
     "Unable to parse form file", "failed to get content type",
     "incorrect file type"}
AuthFailures == {"Couldn't get JWT from header", "Invalid JWT", "Video is not yours!"}
ProcessingFailures ==
    {"Failed to get video from database", "failed to create temp file",
     "failed to copy file to disk", "Could not reset file pointer",
     "failed to process video", "Error determining aspect ratio",
     "failed to open processed file", "Couldn't put object into S3",
     "Couldn't update video", "Couldn't sign video"}
PipelineCalls ==
    << "GetVideo", "CreateTemp", "Copy", "Seek", "ffmpeg", "ffprobe", "Open",
       "PutObject", "UpdateVideo", "Presign" >>

C10_StatusCodes ==
    \A r \in Reqs :
        req[r].pc = "return"
        => LET q == req[r]
               failed == \E i \in 1 .. Len(q.log) : ~q.log[i].ok
           IN  /\ q.resp.status \in {200, 400, 401, 500}
               /\ q.resp.msg \in ValidationFailures <=> q.resp.status = 400
               /\ q.resp.msg \in AuthFailures <=> q.resp.status = 401
               /\ q.resp.msg \in ProcessingFailures <=> q.resp.status = 500
               /\ failed => q.resp.status = 500
               /\ q.resp.status = 200
                  => q.log = [i \in 1 .. Len(PipelineCalls) |->
                                 [call |-> PipelineCalls[i], ok |-> TRUE]]

C10_Witness ==
    \E r \in Reqs, s \in Reqs :
        /\ req[r].pc = "return" /\ req[r].resp.status = 500
        /\ req[r].resp.msg = "Couldn't sign video"
        /\ req[s].pc = "return" /\ req[s].resp.status = 400

(* C11: a request body larger than the 1 GiB cap is answered 400 at the form
   parsing step, before a temp file is staged and before any remux, probe,
   object-store write or metadata update. *)
C11_OversizedBodyRejected ==
    \A r \in Reqs :
        req[r].bodySize > 1024 * 1024 * 1024
        => /\ req[r].pc = "return"
           /\ req[r].resp.status = 400
           /\ req[r].resp.msg = "Exceeded max upload file size"
           /\ req[r].mediaType = Nil
           /\ NothingStarted(r)

C11_Witness ==
    \E r \in Reqs :
        /\ req[r].pc = "return"
        /\ req[r].bodySize = maxUploadSize + 1
        /\ req[r].resp.status = 400

\* every call of b in the log comes after a successful call of a
Before(q, a, b) ==
    \A j \in 1 .. Len(q.log) :
        q.log[j].call = b
        => \E i \in 1 .. j - 1 : q.log[i].call = a /\ q.log[i].ok

(* C12: within a request the remux completes before the probe starts, the
   probe reads the remux output and not the staged upload, the directory is
   chosen after the probe, the object-store write follows it, and the
   metadata update happens only after the object-store write succeeded. *)
C12_PipelineOrder ==
    \A r \in Reqs :
        LET q == req[r]
        IN  /\ Before(q, "ffmpeg", "ffprobe")
            /\ q.probed # Nil
               => (q.probed = q.processedFilePath /\ q.probed # q.tempFile)
            /\ q.directory # "" => Succeeded(q, "ffprobe")
            /\ Before(q, "ffprobe", "PutObject")
            /\ Calls(q, "PutObject") > 0 => q.directory # ""
            /\ Before(q, "PutObject", "UpdateVideo")

(* C13: no retries and immediate abort: a request calls each of remux, probe,
   object-store write, metadata update and signer at most once, and after the
   first call that fails it calls nothing more: it answers and returns. *)
C13_NoRetryAbortAtOnce ==
    \A r \in Reqs :
        LET q == req[r]
        IN  /\ \A call \in {"ffmpeg", "ffprobe", "PutObject", "UpdateVideo",
                            "Presign"} : Calls(q, call) <= 1
            /\ \A i \in 1 .. Len(q.log) :
                  ~q.log[i].ok
                  => /\ i = Len(q.log)
                     /\ q.pc = "return"
                     /\ q.responses = 1
                     /\ q.resp.status = StatusInternalServerError

C13_Witness ==
    \E r \in Reqs :
        /\ req[r].pc = "return"
        /\ req[r].deferred = << >>
        /\ Succeeded(req[r], "ffmpeg")
        /\ Succeeded(req[r], "Open")
        /\ req[r].log[Len(req[r].log)] = [call |-> "PutObject", ok |-> FALSE]

(* C14: when the object-store write succeeded and the metadata update then
   fails, the handler answers 500, makes no delete or other compensating
   call, the written object stays in the store and the record keeps the
   stored reference it had. *)
C14_OrphanLeftOnUpdateFailure ==
    [][\A r \in Reqs :
          /\ (req[r].pc = "UpdateVideo" /\ req'[r].pc = "return")
             => /\ Succeeded(req[r], "PutObject")
                /\ req'[r].resp.status = 500
                /\ req'[r].log = Append(req[r].log,
                                        [call |-> "UpdateVideo", ok |-> FALSE])
                /\ db' = db
                /\ s3' = s3
                /\ << s3Bucket, req[r].key >> \in s3'
          /\ (req[r].pc = "return" /\ req'[r] # req[r]
                 /\ req[r].resp.msg = "Couldn't update video")
             => /\ req'[r].pc \in {"return", "done"}
                /\ db' = db
                /\ s3' = s3
                /\ << s3Bucket, req[r].key >> \in s3'
          /\ s3 \subseteq s3']_vars

C14_Witness ==
    \E r \in Reqs :
        /\ req[r].pc = "return"
        /\ req[r].deferred = << >>
        /\ req[r].resp.status = 500
        /\ req[r].resp.msg = "Couldn't update video"
        /\ << s3Bucket, req[r].key >> \in s3
        /\ db[req[r].videoMetadata.ID].VideoURL = Nil

(* C15: after any sequence of upload requests, every record's VideoURL is
   null or splits at "," into exactly two non-empty parts (bucket, key); a
   plain playable URL is never stored. *)
C15_StoredReferenceWellFormed ==
    \A id \in Videos :
        LET url == db[id].VideoURL
        IN  url # Nil
            => LET split == Split(Deref(url), Comma)
               IN  /\ Len(split) = 2
                   /\ split[1] # << >>
                   /\ split[2] # << >>
                   /\ split[1][1] # "https://"

\* request q still has op on path on its defer stack
Deferred(q, op, path) ==
    \E i \in 1 .. Len(q.deferred) : q.deferred[i] = [op |-> op, path |-> path]

\* request r has staged its upload and not yet cleaned the staged file up
Staged(r) == req[r].tempFile # Nil /\ Deferred(req[r], "Remove", req[r].tempFile)

(* C16: under any interleaving, two requests that have staged files never
   have the same temp path or the same remux output path; the file a request
   is about to remux, probe, open or upload is its own, and every file a
   deferred Remove of a request would delete was made by that request. *)
C16_FilesNotShared ==
    \A r \in Reqs :
        LET q == req[r]
        IN  /\ \A o \in Reqs \ {r} :
                  (Staged(r) /\ Staged(o))
                  => /\ q.tempFile # req[o].tempFile
                     /\ OutputFilePath(q.tempFile) # OutputFilePath(req[o].tempFile)
            /\ Staged(r) => Holds(disk, q.tempFile, r)
            /\ q.pc \in {"getVideoAspectRatio", "Open", "PutObject"}
               => /\ q.processedFilePath = OutputFilePath(q.tempFile)
                  /\ Holds(disk, q.processedFilePath, r)
            /\ \A i \in 1 .. Len(q.deferred) :
                  q.deferred[i].op = "Remove"
                  => \A f \in disk : f.path = q.deferred[i].path => f.by = r

C16_Witness ==
    \E r \in Reqs, o \in Reqs :
        /\ r # o
        /\ req[r].pc = "PutObject"
        /\ req[o].pc = "return"
        /\ Deferred(req[r], "Remove", req[r].processedFilePath)
        /\ Deferred(req[o], "Remove", req[o].processedFilePath)
        /\ Holds(disk, req[r].processedFilePath, r)
        /\ Holds(disk, req[o].processedFilePath, o)

\* the string a codec run decodes
StoredString == IF kin.kind = "pair" THEN BucketAndKey(kin.a, kin.b) ELSE kin.a

(* C17: decoding splits the stored string at its first "," only: the bucket
   is the text before the first "," and the key is all of the text after it,
   further "," included. *)
C17_SplitsAtFirstComma ==
    (kout.done /\ HasComma(StoredString))
    => LET i == IndexFrom(StoredString, Comma, 1)
       IN  /\ kout.ref.ok
           /\ kout.ref.bucket = SubSeq(StoredString, 1, i - 1)
           /\ kout.ref.key = SubSeq(StoredString, i + 1, Len(StoredString))

(* C18: under any interleaving, two uploads to one record included, a
   request updates the record only after its own PutObject has succeeded,
   the reference it persists names the key that PutObject wrote, and every
   non-null VideoURL of a record names an object that is in the store. *)
C18_ReferenceNamesWrittenObject ==
    /\ [](\A id \in Videos :
             db[id].VideoURL # Nil
             => \E obj \in s3 :
                   Deref(db[id].VideoURL) = obj[1] \o << "," >> \o obj[2])
    /\ [][\A r \in Reqs :
             (req[r].pc = "UpdateVideo" /\ req'[r].pc # "UpdateVideo")
             => /\ req[r].log[Len(req[r].log)] = [call |-> "PutObject", ok |-> TRUE]
                /\ Calls(req[r], "UpdateVideo") = 0
                /\ << s3Bucket, req[r].key >> \in s3
                /\ \A id \in Videos :
                      db'[id] # db[id]
                      => /\ id = req[r].videoMetadata.ID
                         /\ db'[id].VideoURL
                               = Ptr(s3Bucket \o << "," >> \o req[r].key)]_vars

C18_Witness ==
    \E r \in Reqs, o \in Reqs :
        /\ r # o
        /\ Succeeded(req[r], "UpdateVideo")
        /\ Succeeded(req[o], "UpdateVideo")
        /\ req[r].videoMetadata.ID = req[o].videoMetadata.ID
        /\ req[r].key # req[o].key
        /\ db[req[r].videoMetadata.ID].VideoURL = req[r].videoMetadata.VideoURL
        /\ {<< s3Bucket, req[r].key >>, << s3Bucket, req[o].key >>} \subseteq s3

(* C19: the only step of a request that changes the metadata store is its
   successful UpdateVideo, so a request that fails at any earlier step (auth,
   validation, staging, remux, probe, open, write, or the update itself)
   leaves the record as it was; a request that fails at signing answers 500
   with its update already persisted and its object in the store, and
   neither is undone. *)
C19_FailureFrame ==
    [][\A r \in Reqs :
          LET q == req[r]
              fails == q.pc # "return" /\ req'[r].pc = "return"
                          /\ req'[r].resp.status # 200
          IN  /\ (req'[r] # q
                     /\ ~(q.pc = "UpdateVideo" /\ req'[r].pc = "dbVideoToSignedVideo"))
                 => db' = db
              /\ (fails /\ q.pc # "dbVideoToSignedVideo")
                 => /\ ~Succeeded(req'[r], "UpdateVideo")
                    /\ Calls(req'[r], "Presign") = 0
                    /\ db' = db
              /\ (fails /\ q.pc = "dbVideoToSignedVideo")
                 => /\ req'[r].resp.status = 500
                    /\ req'[r].resp.msg = "Couldn't sign video"
                    /\ Succeeded(q, "PutObject")
                    /\ Succeeded(q, "UpdateVideo")
                    /\ << s3Bucket, q.key >> \in s3'
                    /\ db'[q.videoMetadata.ID].VideoURL # Nil
                    /\ db' = db
                    /\ s3' = s3]_vars

C19_Witness ==
    \E r \in Reqs, o \in Reqs :
        /\ r # o
        /\ req[r].pc = "return"
        /\ req[r].resp.msg = "Couldn't sign video"
        /\ db[req[r].videoMetadata.ID].VideoURL = req[r].videoMetadata.VideoURL
        /\ << s3Bucket, req[r].key >> \in s3
        /\ req[o].pc = "return"
        /\ req[o].resp.msg = "Couldn't put object into S3"

(* C20: provided every external call returns, every request ends with its
   handler gone, answered 200 (Done) or 400, 401 or 500 (Failed); on every
   path exactly one response is written: none before the handler returns,
   one from then on, never a second. *)
C20_EveryRequestEndsAnsweredOnce ==
    /\ [](\A r \in Reqs :
             /\ req[r].responses <= 1
             /\ req[r].responses = 1 <=> req[r].pc \in {"return", "done"})
    /\ \A r \in Reqs :
          <>[](/\ req[r].pc = "done"
               /\ req[r].responses = 1
               /\ req[r].resp.status \in {StatusOK, StatusBadRequest,
                                          StatusUnauthorized,
                                          StatusInternalServerError})

C20_Witness ==
    /\ \A r \in Reqs : req[r].pc = "done" /\ req[r].responses = 1
    /\ \E r \in Reqs : req[r].resp.status = StatusOK
    /\ \E r \in Reqs : req[r].resp.status = StatusInternalServerError

=============================================================================
